---- MODULE Spec2Model ----
(***************************************************************************)
(* SimpleLinearRegression and SimpleLogisticRegression (stats-simple-cpp)  *)
(* as a state machine: one regressor object, the calls made on it, and     *)
(* the iterations of the gradient-descent loop of the logistic fit.        *)
(*                                                                         *)
(* Numbers.  A C++ double is modelled by a record                          *)
(*    [k |-> "fin", n, d, e]   the value (n/d) * (1E42)^e, n/d in lowest   *)
(*                             terms, d > 0, zero always as 0/1 with e = 0 *)
(*    [k |-> "nan", ...]       NaN                                         *)
(*    [k |-> "inf", n |-> s]   +infinity (s = 1) or -infinity (s = -1)     *)
(* The samples are integers, for which every binary64 sum and product of   *)
(* the code is exact; a quotient is kept as the exact rational (binary64   *)
(* rounds it to the nearest double).  A product of two elements is formed  *)
(* in the element type of the containers, ValType: for float it is rounded *)
(* to 24 significant bits (round to nearest, ties to even, every product   *)
(* evaluated in its own type, FLT_EVAL_METHOD 0).  The power of 1E42 holds *)
(* the "unfit" sentinel of the constructors: next to a value of a higher   *)
(* power a value of a lower power is below half an ulp and is absorbed by  *)
(* an addition, as in binary64.  Every zero the code divides by is +0      *)
(* (the parameters of the loop start from 0 and come back to it by         *)
(* x - x = +0), so a nonzero value divided by zero takes the sign of the   *)
(* numerator; the sign of a zero is not kept.                              *)
(***************************************************************************)
EXTENDS Integers, Sequences, FiniteSets, TLC

\* ------------------------------------------------------------- bounds
\* Longest sequence handed to fit, predict or score.
MaxLen == 3
\* Largest iteration_threshold tried with the enumerated samples.
MaxIter == 2
\* Values iteration_count goes round once it is past iteration_threshold:
\* the loop condition reads it only in iteration_count < iteration_threshold.
ExtraIter == 2

\* Values of the elements of x and of y.
XVals == {0, 1, 2}
YVals == {0, 1, 2}

\* The element type of the containers the program hands to its regressor:
\* the template argument ValType.
VARIABLE ValType

\* ------------------------------------------------------------ doubles
Abs(i) == IF i < 0 THEN -i ELSE i

Sgn(i) == IF i < 0 THEN -1 ELSE IF i = 0 THEN 0 ELSE 1

RECURSIVE Gcd(_, _)
Gcd(a, b) == IF b = 0 THEN a ELSE Gcd(b, a % b)

NaN == [k |-> "nan", n |-> 0, d |-> 1, e |-> 0]

Inf(s) == [k |-> "inf", n |-> s, d |-> 1, e |-> 0]

Fin(n, d, e) ==
  IF n = 0 THEN [k |-> "fin", n |-> 0, d |-> 1, e |-> 0]
  ELSE LET g == Gcd(Abs(n), Abs(d))
           s == Sgn(d)
       IN  [k |-> "fin", n |-> (s * n) \div g, d |-> Abs(d) \div g, e |-> e]

\* static_cast<double>(i) of an integer i
D(i) == Fin(i, 1, 0)

Zero == D(0)

One == D(1)

IsNaN(a) == a.k = "nan"

DNeg(a) == IF a.k = "nan" THEN NaN ELSE [a EXCEPT !.n = -a.n]

\* a + b
DAdd(a, b) ==
  CASE a.k = "nan" \/ b.k = "nan" -> NaN
    [] a.k = "inf" /\ b.k = "inf" -> IF a.n = b.n THEN a ELSE NaN
    [] a.k = "inf" -> a
    [] b.k = "inf" -> b
    [] a.n = 0 -> b
    [] b.n = 0 -> a
    [] a.e > b.e -> a
    [] b.e > a.e -> b
    [] OTHER -> Fin(a.n * b.d + b.n * a.d, a.d * b.d, a.e)

\* a - b
DSub(a, b) == DAdd(a, DNeg(b))

\* a * b
DMul(a, b) ==
  CASE a.k = "nan" \/ b.k = "nan" -> NaN
    [] a.k = "inf" \/ b.k = "inf" ->
         IF a.n = 0 \/ b.n = 0 THEN NaN ELSE Inf(Sgn(a.n) * Sgn(b.n))
    [] OTHER -> Fin(a.n * b.n, a.d * b.d, a.e + b.e)

\* a / b
DDiv(a, b) ==
  CASE a.k = "nan" \/ b.k = "nan" -> NaN
    [] a.k = "inf" /\ b.k = "inf" -> NaN
    [] a.k = "inf" -> Inf(a.n * (IF b.n < 0 THEN -1 ELSE 1))
    [] b.k = "inf" -> Zero
    [] b.n = 0 -> IF a.n = 0 THEN NaN ELSE Inf(Sgn(a.n))
    [] OTHER -> Fin(a.n * b.d, a.d * b.n, a.e - b.e)

\* std::fabs(a)
DFabs(a) == IF a.k = "nan" THEN NaN ELSE [a EXCEPT !.n = Abs(a.n)]

\* a == b, a != b, a > b, a >= b: every comparison with a NaN is false,
\* except != which is true
DEq(a, b) == a.k # "nan" /\ b.k # "nan" /\ a = b

DNe(a, b) == ~DEq(a, b)

DGt(a, b) ==
  /\ a.k # "nan"
  /\ b.k # "nan"
  /\ a # b
  /\ CASE a.k = "inf" -> a.n > 0
       [] b.k = "inf" -> b.n < 0
       [] OTHER -> DSub(a, b).n > 0

DGe(a, b) == DEq(a, b) \/ DGt(a, b)

DLe(a, b) == DGe(b, a)

\* ------------------------------------------------- <numeric> helpers
\* std::accumulate(x.begin(), x.end(), init): init + x[1] + ... + x[n],
\* from the left, each element converted to double
RECURSIVE accumulate(_, _)
accumulate(x, init) ==
  IF x = <<>> THEN init ELSE accumulate(Tail(x), DAdd(init, D(Head(x))))

\* std::accumulate over a container of doubles
RECURSIVE accumulate_d(_, _)
accumulate_d(x, init) ==
  IF x = <<>> THEN init ELSE accumulate_d(Tail(x), DAdd(init, Head(x)))

\* the unit in the last place of a float of magnitude m >= 0: 1 below 2^24
RECURSIVE FloatUlp(_)
FloatUlp(m) == IF m < 16777216 THEN 1 ELSE 2 * FloatUlp(m \div 2)

\* the float nearest to the integer v, ties to the even mantissa
RoundFloat(v) ==
  LET m == Abs(v)
      u == FloatUlp(m)
      q == m \div u
      r == m % u
  IN  Sgn(v) * u * (IF 2 * r > u \/ (2 * r = u /\ q % 2 = 1) THEN q + 1 ELSE q)

\* the value of an integer v as a ValType: that of a product of two elements
\* (an int or a double holds every integer the model forms)
ToValType(v) == IF ValType = "float" THEN RoundFloat(v) ELSE v

\* std::inner_product(a.begin(), a.end(), b.begin(), init) of two containers
\* of ValType: init + a[1]*b[1] + ... , each product a ValType; stops at the
\* end of a
RECURSIVE inner_product(_, _, _)
inner_product(a, b, init) ==
  IF a = <<>> THEN init
  ELSE inner_product(Tail(a), Tail(b),
                     DAdd(init, D(ToValType(Head(a) * Head(b)))))

\* std::inner_product of two containers of doubles
RECURSIVE inner_product_d(_, _, _)
inner_product_d(a, b, init) ==
  IF a = <<>> THEN init
  ELSE inner_product_d(Tail(a), Tail(b), DAdd(init, DMul(Head(a), Head(b))))

\* std::inner_product of a container of ValType with a container of doubles:
\* each product a double
RECURSIVE inner_product_id(_, _, _)
inner_product_id(a, b, init) ==
  IF a = <<>> THEN init
  ELSE inner_product_id(Tail(a), Tail(b),
                        DAdd(init, DMul(D(Head(a)), Head(b))))

\* ------------------------------------------------------------- inputs
Seqs(S, n) == UNION {[1..m -> S] : m \in 0..n}

\* the pairs (x, y) of equal length
EqualSamples ==
  UNION {{[x |-> a, y |-> b] : a \in [1..m -> XVals], b \in [1..m -> YVals]} :
         m \in 0..MaxLen}

\* the pairs (x, y) of different lengths: of these every operation reads
\* the two sizes only
UnequalSamples ==
  {[x |-> [j \in 1..m |-> 0], y |-> [j \in 1..n |-> j % 2]] :
   m \in 0..MaxLen, n \in 0..MaxLen} \ EqualSamples

\* the pairs (x, y) handed to fit and score
Samples == EqualSamples \cup UnequalSamples

\* the worked examples of the documentation
LinearExample == [x |-> <<1, 2, 3, 4>>, y |-> <<3, 5, 7, 9>>]

\* the input and the output of the documented call predict([5])
LinearTest == [x |-> <<5>>, y |-> <<11>>]

LogisticExample == [x |-> <<1, 1, 1, 5, 5, 5>>, y |-> <<0, 0, 0, 1, 1, 1>>]

Linear == "SimpleLinearRegression"

Logistic == "SimpleLogisticRegression"

\* no regressor: the program calls the free functions of Stats and Maths
Free == "free functions"

\* --------------------------------------------------------------- state
VARIABLES
  cls,                  \* the class of the regressor the program created
  coeff,                \* _coeff
  intercept,            \* _intercept
  learning_rate,        \* _learning_rate       (SimpleLogisticRegression)
  gradient_threshold,   \* _gradient_threshold  (SimpleLogisticRegression)
  iteration_threshold,  \* _iteration_threshold (SimpleLogisticRegression)
  train,                \* the first of the two samples the program holds
  pc,                   \* "idle", or "fitting" inside the do-while of fit
  d_coeff,              \* local of SimpleLogisticRegression::fit
  d_intercept,          \* local of SimpleLogisticRegression::fit
  iteration_count,      \* local of SimpleLogisticRegression::fit
  call,                 \* the last call: its arguments and its outcome
  fitted                \* history: the arguments of the last fit that returned

vars == <<ValType, cls, coeff, intercept, learning_rate, gradient_threshold,
          iteration_threshold, train, pc, d_coeff, d_intercept,
          iteration_count, call, fitted>>

hypers == <<learning_rate, gradient_threshold, iteration_threshold>>

locals == <<d_coeff, d_intercept, iteration_count>>

\* _coeff = 1E42, _intercept = 1E42
Unfit == Fin(1, 1, 1)

NoSample == [x |-> <<>>, y |-> <<>>]

NoCall == [op |-> "none", x |-> <<>>, y |-> <<>>, status |-> "none",
           what |-> "", ret |-> <<>>]

\* a call that returned ret / a call that threw std::invalid_argument(what)
Returned(op, x, y, ret) ==
  [op |-> op, x |-> x, y |-> y, status |-> "ok", what |-> "", ret |-> ret]

Threw(op, x, y, what) ==
  [op |-> op, x |-> x, y |-> y, status |-> "invalid_argument",
   what |-> what, ret |-> <<>>]

\* the record of a call of fit: with it, whether the parameters had left
\* the sentinel of the constructor when fit was called
OfFit(c, refit) == c @@ [refit |-> refit]

\* fit with sx * sx for sx * sy in the numerator
LinearFitParams_SxForSy(x, y) ==
  LET size  == D(Len(x))
      sx    == accumulate(x, Zero)
      sy    == accumulate(y, Zero)
      sxx   == inner_product(x, x, Zero)
      sxy   == inner_product(x, y, Zero)
      num   == DSub(DMul(size, sxy), DMul(sx, sx))
      denom == DSub(DMul(size, sxx), DMul(sx, sx))
      c     == IF DNe(denom, Zero) THEN DDiv(num, denom) ELSE NaN
  IN  [coeff |-> c, intercept |-> DDiv(DSub(sy, DMul(c, sx)), size)]

\* the sums and the two parameters fit computes from x and y
LinearFitParams(x, y) ==
  LET size  == D(Len(x))
      sx    == accumulate(x, Zero)
      sy    == accumulate(y, Zero)
      sxx   == inner_product(x, x, Zero)
      sxy   == inner_product(x, y, Zero)
      num   == DSub(DMul(size, sxy), DMul(sx, sy))
      denom == DSub(DMul(size, sxx), DMul(sx, sx))
      c     == IF DNe(denom, Zero) THEN DDiv(num, denom) ELSE NaN
  IN  [coeff |-> c, intercept |-> DDiv(DSub(sy, DMul(c, sx)), size)]

\* predict: _coeff * x[i] + _intercept for every element
LinearPredictWith(c, i, x) ==
  [j \in 1..Len(x) |-> DAdd(DMul(c, D(x[j])), i)]

\* y[i] - y_predict[i], element-wise (std::minus<double>)
Residuals(y, y_predict) == [j \in 1..Len(y) |-> DSub(D(y[j]), y_predict[j])]

\* score with the total sum of squares taken from the predicted values
LinearScoreWith_PredictedVariance(c, i, x, y) ==
  LET size      == D(Len(x))
      y_predict == LinearPredictWith(c, i, x)
      res       == Residuals(y, y_predict)
      ssres     == inner_product_d(res, res, Zero)
      sy        == accumulate_d(y_predict, Zero)
      syy       == inner_product_d(y_predict, y_predict, Zero)
      sstot     == DSub(syy, DDiv(DMul(sy, sy), size))
  IN  DSub(One, DDiv(ssres, sstot))

\* the value score returns for equal-length non-empty x and y
LinearScoreWith(c, i, x, y) ==
  LET size      == D(Len(x))
      y_predict == LinearPredictWith(c, i, x)
      res       == Residuals(y, y_predict)
      ssres     == inner_product_d(res, res, Zero)
      sy        == accumulate(y, Zero)
      syy       == inner_product(y, y, Zero)
      sstot     == DSub(syy, DDiv(DMul(sy, sy), size))
  IN  DSub(One, DDiv(ssres, sstot))

LinearFitError_NoMinimumSize(x, y) ==
  IF Len(x) # Len(y)
  THEN "Inputs have not the same size."
  ELSE ""

\* the checks of fit on the sizes of x and y: the message of the exception
\* thrown, "" when none is
LinearFitError(x, y) ==
  IF Len(x) # Len(y)
  THEN "Inputs have not the same size."
  ELSE IF Len(x) < 2
  THEN "Inputs have not enough values for fit."
  ELSE ""

LinearFit_ResetsOnError(s) ==
  /\ cls = Linear
  /\ pc = "idle"
  /\ LET what == LinearFitError(s.x, s.y)
     IN  IF what # ""
         THEN /\ call' = OfFit(Threw("fit", s.x, s.y, what), coeff # Unfit)
              /\ coeff' = NaN
              /\ intercept' = NaN
              /\ UNCHANGED fitted
         ELSE /\ coeff' = LinearFitParams(s.x, s.y).coeff
              /\ intercept' = LinearFitParams(s.x, s.y).intercept
              /\ call' = OfFit(Returned("fit", s.x, s.y, <<>>), coeff # Unfit)
              /\ fitted' = s
  /\ UNCHANGED <<ValType, cls, hypers, train, pc, locals>>

LinearFit(s) ==
  /\ cls = Linear
  /\ pc = "idle"
  /\ LET what == LinearFitError(s.x, s.y)
     IN  IF what # ""
         THEN /\ call' = OfFit(Threw("fit", s.x, s.y, what), coeff # Unfit)
              /\ UNCHANGED <<coeff, intercept, fitted>>
         ELSE /\ coeff' = LinearFitParams(s.x, s.y).coeff
              /\ intercept' = LinearFitParams(s.x, s.y).intercept
              /\ call' = OfFit(Returned("fit", s.x, s.y, <<>>), coeff # Unfit)
              /\ fitted' = s
  /\ UNCHANGED <<ValType, cls, hypers, train, pc, locals>>

LinearPredict(x) ==
  /\ cls = Linear
  /\ pc = "idle"
  /\ call' = Returned("predict", x, <<>>, LinearPredictWith(coeff, intercept, x))
  /\ UNCHANGED <<ValType, cls, coeff, intercept, hypers, train, pc, locals, fitted>>

LinearScore(s) ==
  /\ cls = Linear
  /\ pc = "idle"
  /\ call' = IF Len(s.x) # Len(s.y)
             THEN Threw("score", s.x, s.y, "Inputs have not the same size.")
             ELSE IF Len(s.x) = 0
             THEN Threw("score", s.x, s.y, "Inputs have not enough values for score.")
             ELSE Returned("score", s.x, s.y,
                           <<LinearScoreWith(coeff, intercept, s.x, s.y)>>)
  /\ UNCHANGED <<ValType, cls, coeff, intercept, hypers, train, pc, locals, fitted>>

\* ----------------------------------------------------------- Maths.hpp
\* the default of the parameter epsilon of Maths::set: 1e-6
DefaultEpsilon == Fin(1, 1000000, 0)

IsInSet_UpToEpsilon(x_set, _x, epsilon) ==
  \E j \in 1..Len(x_set) :
     DGe(epsilon, DFabs(DSub(D(x_set[j]), D(_x))))

\* is_in_set after the inner loop of Maths::set: some element _s of x_set
\* has fabs(_s - _x) < epsilon
IsInSet(x_set, _x, epsilon) ==
  \E j \in 1..Len(x_set) :
     DGt(epsilon, DFabs(DSub(D(x_set[j]), D(_x))))

\* the outer loop of Maths::set over the elements of rest
RECURSIVE SetLoop(_, _, _)
SetLoop(x_set, rest, epsilon) ==
  IF rest = <<>> THEN x_set
  ELSE SetLoop(IF IsInSet(x_set, Head(rest), epsilon)
               THEN x_set ELSE Append(x_set, Head(rest)),
               Tail(rest), epsilon)

\* Maths::set(x, epsilon) of a non-empty container
set(x, epsilon) == SetLoop(<<Head(x)>>, x, epsilon)

\* Maths::linear(x, a, b): a * e + b for every element e
linear(x, a, b) == [j \in 1..Len(x) |-> DAdd(DMul(a, D(x[j])), b)]

sigmoid_ge_half_Strict(e) == IF DGt(e, Zero) THEN 1 ELSE 0

\* Maths::sigmoid followed by the lambda of predict, e >= 0.5 ? 1 : 0.
\* 1.0 / (1.0 + exp(-e)) >= 0.5 exactly when exp(-e) <= 1, that is when
\* e >= 0; for a NaN the comparison is false.
sigmoid_ge_half(e) == IF DGe(e, Zero) THEN 1 ELSE 0

\* static_cast<int> of a finite value within the range of int: the
\* fractional part is discarded
static_cast_int(v) == Sgn(v.n) * (Abs(v.n) \div v.d)

\* the count of accuracy_score: the positions whose two values are the
\* same int
CountEqual(y_true, y_predict) ==
  Cardinality({j \in 1..Len(y_true) :
                 static_cast_int(y_true[j]) = static_cast_int(y_predict[j])})

accuracy_score_CountsDifferent(y_true, y_predict) ==
  DDiv(D(Len(y_true) - CountEqual(y_true, y_predict)), D(Len(y_true)))

\* Stats::accuracy_score(y_true, y_predict) of two non-empty containers of
\* the same size
accuracy_score(y_true, y_predict) ==
  DDiv(D(CountEqual(y_true, y_predict)), D(Len(y_true)))

\* ------------------------------------------- SimpleLogisticRegression
LogisticPredictWith(c, i, x) ==
  LET y_lin == linear(x, c, i)
  IN  [j \in 1..Len(x) |-> sigmoid_ge_half(y_lin[j])]

\* fit that looks at the first class only
LogisticFitError_FrontOnly(lr, gt, it, x, y) ==
  IF DLe(lr, Zero)
  THEN "Parameter learning_rate must be positive."
  ELSE IF DLe(gt, Zero) \/ DGe(gt, One)
  THEN "Parameter gradient_threshold must be a percentage in (0, 1)."
  ELSE IF it <= 0
  THEN "Parameter iteration_threshold must be positive."
  ELSE IF Len(x) # Len(y)
  THEN "Inputs have not the same size."
  ELSE IF Len(x) < 2
  THEN "Inputs have not enough values for fit."
  ELSE LET y_set == set(y, DefaultEpsilon)
           front == y_set[1]
           back  == y_set[Len(y_set)]
       IN  IF Len(y_set) # 2
           THEN "Targets must contain two classes of values."
           ELSE IF front # 0 /\ front # 1
           THEN "Targets must contain binary values, 0 or 1."
           ELSE ""

\* fit that accepts gradient_threshold = 1
LogisticFitError_ThresholdOne(lr, gt, it, x, y) ==
  IF DLe(lr, Zero)
  THEN "Parameter learning_rate must be positive."
  ELSE IF DLe(gt, Zero) \/ DGt(gt, One)
  THEN "Parameter gradient_threshold must be a percentage in (0, 1)."
  ELSE IF it <= 0
  THEN "Parameter iteration_threshold must be positive."
  ELSE IF Len(x) # Len(y)
  THEN "Inputs have not the same size."
  ELSE IF Len(x) < 2
  THEN "Inputs have not enough values for fit."
  ELSE LET y_set == set(y, DefaultEpsilon)
           front == y_set[1]
           back  == y_set[Len(y_set)]
       IN  IF Len(y_set) # 2
           THEN "Targets must contain two classes of values."
           ELSE IF (front # 0 /\ front # 1) \/ (back # 0 /\ back # 1)
           THEN "Targets must contain binary values, 0 or 1."
           ELSE ""

\* the message of the exception fit throws for these arguments, "" if none
LogisticFitError(lr, gt, it, x, y) ==
  IF DLe(lr, Zero)
  THEN "Parameter learning_rate must be positive."
  ELSE IF DLe(gt, Zero) \/ DGe(gt, One)
  THEN "Parameter gradient_threshold must be a percentage in (0, 1)."
  ELSE IF it <= 0
  THEN "Parameter iteration_threshold must be positive."
  ELSE IF Len(x) # Len(y)
  THEN "Inputs have not the same size."
  ELSE IF Len(x) < 2
  THEN "Inputs have not enough values for fit."
  ELSE LET y_set == set(y, DefaultEpsilon)
           front == y_set[1]
           back  == y_set[Len(y_set)]
       IN  IF Len(y_set) # 2
           THEN "Targets must contain two classes of values."
           ELSE IF (front # 0 /\ front # 1) \/ (back # 0 /\ back # 1)
           THEN "Targets must contain binary values, 0 or 1."
           ELSE ""

FitIteration_Ascent(c, i, n, lr, gt, it, x, y) ==
  LET size_inv  == DDiv(One, D(Len(x)))
      y_predict == LogisticPredictWith(c, i, x)
      res       == [j \in 1..Len(x) |-> DSub(D(y_predict[j]), D(y[j]))]
      dc        == DMul(size_inv, inner_product_id(x, res, Zero))
      di        == DMul(size_inv, accumulate_d(res, Zero))
      c2        == DAdd(c, DMul(lr, dc))
      i2        == DSub(i, DMul(lr, di))
      n2        == n + 1
  IN  [coeff |-> c2, intercept |-> i2, d_coeff |-> dc, d_intercept |-> di,
       iteration_count |-> n2,
       again |-> \/ /\ DGt(DFabs(DDiv(dc, c2)), gt)
                   /\ DGt(DFabs(DDiv(di, i2)), gt)
                \/ n2 < it]

FitIteration_StopsOnGradient(c, i, n, lr, gt, it, x, y) ==
  LET size_inv  == DDiv(One, D(Len(x)))
      y_predict == LogisticPredictWith(c, i, x)
      res       == [j \in 1..Len(x) |-> DSub(D(y_predict[j]), D(y[j]))]
      dc        == DMul(size_inv, inner_product_id(x, res, Zero))
      di        == DMul(size_inv, accumulate_d(res, Zero))
      c2        == DSub(c, DMul(lr, dc))
      i2        == DSub(i, DMul(lr, di))
      n2        == n + 1
  IN  [coeff |-> c2, intercept |-> i2, d_coeff |-> dc, d_intercept |-> di,
       iteration_count |-> n2,
       again |-> \/ /\ DGt(DFabs(DDiv(dc, c2)), gt)
                   /\ DGt(DFabs(DDiv(di, i2)), gt)]

FitIteration_BiasedStep(c, i, n, lr, gt, it, x, y) ==
  LET size_inv  == DDiv(One, D(Len(x)))
      y_predict == LogisticPredictWith(c, i, x)
      res       == [j \in 1..Len(x) |-> DSub(D(y_predict[j]), D(y[j]))]
      dc        == DMul(size_inv, inner_product_id(x, res, Zero))
      di        == DMul(size_inv, accumulate_d(res, Zero))
      c2        == DSub(c, DMul(lr, dc))
      i2        == DSub(i, DMul(lr, DAdd(di, One)))
      n2        == n + 1
  IN  [coeff |-> c2, intercept |-> i2, d_coeff |-> dc, d_intercept |-> di,
       iteration_count |-> n2,
       again |-> \/ /\ DGt(DFabs(DDiv(dc, c2)), gt)
                   /\ DGt(DFabs(DDiv(di, i2)), gt)
                \/ n2 < it]

\* one pass through the body of the do-while of fit, from the parameters
\* c, i and the count n: the new parameters, gradients and count, and
\* whether the loop goes on
FitIteration(c, i, n, lr, gt, it, x, y) ==
  LET size_inv  == DDiv(One, D(Len(x)))
      y_predict == LogisticPredictWith(c, i, x)
      res       == [j \in 1..Len(x) |-> DSub(D(y_predict[j]), D(y[j]))]
      dc        == DMul(size_inv, inner_product_id(x, res, Zero))
      di        == DMul(size_inv, accumulate_d(res, Zero))
      c2        == DSub(c, DMul(lr, dc))
      i2        == DSub(i, DMul(lr, di))
      n2        == n + 1
  IN  [coeff |-> c2, intercept |-> i2, d_coeff |-> dc, d_intercept |-> di,
       iteration_count |-> n2,
       again |-> \/ /\ DGt(DFabs(DDiv(dc, c2)), gt)
                   /\ DGt(DFabs(DDiv(di, i2)), gt)
                \/ n2 < it]

\* the count kept by the model: exact up to iteration_threshold, where the
\* loop condition last reads it, and beyond that going round the ExtraIter
\* values that follow, so that every iteration changes it
Counted(n) ==
  IF n > iteration_threshold + ExtraIter
  THEN iteration_threshold + 1 ELSE n

LogisticFit_KeepsParameters(s) ==
  /\ cls = Logistic
  /\ pc = "idle"
  /\ LET what == LogisticFitError(learning_rate, gradient_threshold,
                                  iteration_threshold, s.x, s.y)
     IN  IF what # ""
         THEN /\ call' = OfFit(Threw("fit", s.x, s.y, what), coeff # Unfit)
              /\ UNCHANGED <<coeff, intercept, pc, locals>>
         ELSE /\ UNCHANGED <<coeff, intercept>>
              /\ d_coeff' = Zero
              /\ d_intercept' = Zero
              /\ iteration_count' = 0
              /\ pc' = "fitting"
              /\ call' = OfFit([op |-> "fit", x |-> s.x, y |-> s.y,
                                 status |-> "running", what |-> "",
                                 ret |-> <<>>], coeff # Unfit)
  /\ UNCHANGED <<ValType, cls, hypers, train, fitted>>

\* fit, up to the entry of the do-while
LogisticFit(s) ==
  /\ cls = Logistic
  /\ pc = "idle"
  /\ LET what == LogisticFitError(learning_rate, gradient_threshold,
                                  iteration_threshold, s.x, s.y)
     IN  IF what # ""
         THEN /\ call' = OfFit(Threw("fit", s.x, s.y, what), coeff # Unfit)
              /\ UNCHANGED <<coeff, intercept, pc, locals>>
         ELSE /\ coeff' = Zero
              /\ intercept' = Zero
              /\ d_coeff' = Zero
              /\ d_intercept' = Zero
              /\ iteration_count' = 0
              /\ pc' = "fitting"
              /\ call' = OfFit([op |-> "fit", x |-> s.x, y |-> s.y,
                                 status |-> "running", what |-> "",
                                 ret |-> <<>>], coeff # Unfit)
  /\ UNCHANGED <<ValType, cls, hypers, train, fitted>>

\* one iteration of the do-while of fit, and the return after the last
LogisticFitStep ==
  /\ cls = Logistic
  /\ pc = "fitting"
  /\ LET r == FitIteration(coeff, intercept, iteration_count, learning_rate,
                           gradient_threshold, iteration_threshold,
                           call.x, call.y)
     IN  /\ coeff' = r.coeff
         /\ intercept' = r.intercept
         /\ d_coeff' = r.d_coeff
         /\ d_intercept' = r.d_intercept
         /\ iteration_count' = Counted(r.iteration_count)
         /\ IF r.again
            THEN UNCHANGED <<pc, call, fitted>>
            ELSE /\ pc' = "idle"
                 /\ call' = OfFit(Returned("fit", call.x, call.y, <<>>),
                                  call.refit)
                 /\ fitted' = [x |-> call.x, y |-> call.y]
  /\ UNCHANGED <<ValType, cls, hypers, train>>

LogisticPredict(x) ==
  /\ cls = Logistic
  /\ pc = "idle"
  /\ call' = Returned("predict", x, <<>>, LogisticPredictWith(coeff, intercept, x))
  /\ UNCHANGED <<ValType, cls, coeff, intercept, hypers, train, pc, locals, fitted>>

LogisticScore(s) ==
  /\ cls = Logistic
  /\ pc = "idle"
  /\ LET y_predict == LogisticPredictWith(coeff, intercept, s.x)
     IN  call' = IF Len(s.y) # Len(y_predict)
                 THEN Threw("score", s.x, s.y, "Inputs have not the same size.")
                 ELSE IF Len(s.y) = 0
                 THEN Threw("score", s.x, s.y,
                            "Inputs have not enough values for accuracy_score.")
                 ELSE Returned("score", s.x, s.y,
                               <<accuracy_score([j \in 1..Len(s.y) |-> D(s.y[j])],
                                                [j \in 1..Len(s.y) |-> D(y_predict[j])])>>)
  /\ UNCHANGED <<ValType, cls, coeff, intercept, hypers, train, pc, locals, fitted>>

\* ------------------------------------------- calls of free functions
\* Stats::accuracy_score(y_true, y_predict) called on its own, s.x the true
\* and s.y the predicted labels
AccuracyScore(s) ==
  /\ cls = Free
  /\ call' = IF Len(s.x) # Len(s.y)
             THEN Threw("accuracy_score", s.x, s.y, "Inputs have not the same size.")
             ELSE IF Len(s.x) = 0
             THEN Threw("accuracy_score", s.x, s.y,
                        "Inputs have not enough values for accuracy_score.")
             ELSE Returned("accuracy_score", s.x, s.y,
                           <<accuracy_score([j \in 1..Len(s.x) |-> D(s.x[j])],
                                            [j \in 1..Len(s.y) |-> D(s.y[j])])>>)
  /\ UNCHANGED <<ValType, cls, coeff, intercept, hypers, train, pc, locals, fitted>>

\* Maths::set(x, epsilon) called on its own.  x.front() of an empty
\* container is undefined: the call may return anything of the kind
MathsSet(x, epsilon) ==
  /\ cls = Free
  /\ IF x = <<>>
     THEN \E r \in {<<>>} \cup {<<v>> : v \in XVals} :
             call' = [op |-> "set", x |-> x, y |-> <<>>, status |-> "undefined",
                      what |-> "", ret |-> r, epsilon |-> epsilon]
     ELSE call' = [op |-> "set", x |-> x, y |-> <<>>, status |-> "ok",
                   what |-> "", ret |-> set(x, epsilon), epsilon |-> epsilon]
  /\ UNCHANGED <<ValType, cls, coeff, intercept, hypers, train, pc, locals, fitted>>

\* what std::sort with op_sort_increase may leave of the pairs (x[j], j):
\* the orders p of the positions of x in which no value is followed by a
\* smaller one (the sort is not stable: equal values come in any order)
SortedOrders(x) ==
  {p \in [1..Len(x) -> 1..Len(x)] :
     /\ \A i, j \in 1..Len(x) : i # j => p[i] # p[j]
     /\ \A i, j \in 1..Len(x) : i < j => ~(x[p[j]] < x[p[i]])}

\* Stats::rankdata(x): the second members of the sorted pairs, the 0-based
\* positions the values had in x
rankdata(x, p) == [j \in 1..Len(x) |-> p[j] - 1]

Rankdata(x) ==
  /\ cls = Free
  /\ \E p \in SortedOrders(x) :
        call' = Returned("rankdata", x, <<>>, rankdata(x, p))
  /\ UNCHANGED <<ValType, cls, coeff, intercept, hypers, train, pc, locals, fitted>>

\* ------------------------------------------------------- the program
\* the hyperparameters the constructor is called with
Hyper(lr, gt, it) ==
  [learning_rate |-> lr, gradient_threshold |-> gt, iteration_threshold |-> it]

\* SimpleLogisticRegression(): 0.001, 0.01, 100
DefaultHyper == Hyper(Fin(1, 1000, 0), Fin(1, 100, 0), 100)

\* hyperparameters fit accepts, with few iterations
ValidHypers ==
  {Hyper(Fin(1, 1000, 0), Fin(1, 100, 0), MaxIter), Hyper(One, Fin(1, 2, 0), 1)}

\* hyperparameters fit rejects: one of the three out of its range
InvalidHypers ==
  {Hyper(lr, Fin(1, 100, 0), 1) : lr \in {Zero, D(-1)}}
  \cup {Hyper(Fin(1, 1000, 0), gt, 1) : gt \in {Zero, One, D(-1), D(2)}}
  \cup {Hyper(Fin(1, 1000, 0), Fin(1, 100, 0), it) : it \in {0, -1}}

\* the samples fitted with the default hyperparameters
DefaultSamples == {LogisticExample, [x |-> <<1, 1>>, y |-> <<0, 1>>]}

\* one sample of each kind the checks of fit tell apart: accepted, sizes
\* that differ, too short, one class, three classes, a class outside {0, 1}
KindSamples ==
  {[x |-> <<0, 2>>, y |-> <<0, 1>>], [x |-> <<0>>, y |-> <<0, 1>>],
   [x |-> <<1>>, y |-> <<1>>], [x |-> <<>>, y |-> <<>>],
   [x |-> <<0, 1>>, y |-> <<1, 1>>], [x |-> <<0, 1, 2>>, y |-> <<0, 1, 2>>],
   [x |-> <<0, 1>>, y |-> <<1, 2>>]}

\* the samples a logistic regressor is tried on: a label sequence with a
\* value outside {0, 1} comes with one x only, fit rejects it before it
\* reads x
LogisticSamples ==
  {s \in EqualSamples : \A j \in 1..Len(s.y) : s.y[j] \in {0, 1}}
  \cup {s \in EqualSamples : \A j \in 1..Len(s.x) : s.x[j] = 0}
  \cup UnequalSamples

\* a second sample of the logistic regressor
LogisticSecond == [x |-> <<0, 2>>, y |-> <<0, 1>>]

\* the second sample the program holds, besides train
Second == IF cls = Linear THEN LinearExample ELSE LogisticSecond

\* what the constructors leave, and no call made yet
Constructed ==
  /\ coeff = Unfit
  /\ intercept = Unfit
  /\ pc = "idle"
  /\ d_coeff = Zero
  /\ d_intercept = Zero
  /\ iteration_count = 0
  /\ call = NoCall
  /\ fitted = NoSample

WithHyper(h) ==
  /\ learning_rate = h.learning_rate
  /\ gradient_threshold = h.gradient_threshold
  /\ iteration_threshold = h.iteration_threshold

\* samples of floats with a product of more than 24 significant bits
FloatSamples ==
  {[x |-> <<4096, 4097>>, y |-> <<12288, 12291>>],
   [x |-> <<4097, 4097>>, y |-> <<0, 1>>],
   [x |-> <<4096, 4097>>, y |-> <<3, 3>>],
   [x |-> <<0, 2, 2>>, y |-> <<0, 1, 1>>]}

\* SimpleLinearRegression()
LinearInit ==
  /\ cls = Linear
  /\ WithHyper(DefaultHyper)
  /\ \/ ValType = "double" /\ train \in Samples \cup {LinearTest}
     \/ ValType = "float" /\ train \in FloatSamples
  /\ Constructed

\* SimpleLogisticRegression(learning_rate, gradient_threshold,
\* iteration_threshold)
LogisticInit ==
  /\ cls = Logistic
  /\ ValType = "double"
  /\ \E h \in ValidHypers \cup InvalidHypers \cup {DefaultHyper} :
        /\ WithHyper(h)
        /\ train \in IF h \in ValidHypers THEN LogisticSamples
                     ELSE IF h = DefaultHyper THEN DefaultSamples
                     ELSE KindSamples
  /\ Constructed

Init == LinearInit \/ LogisticInit

LinearNext ==
  \/ \E s \in {train, Second} : LinearFit(s)
  \/ LinearPredict(train.x)
  \/ LinearScore(train)

LogisticNext ==
  \/ \E s \in {train, Second} : LogisticFit(s)
  \/ LogisticFitStep
  \/ LogisticPredict(train.x)
  \/ LogisticScore(train)

Next == LinearNext \/ LogisticNext

\* a program with a regressor of either class
Spec == Init /\ [][Next]_vars

\* a program with a SimpleLinearRegression
LinearSpec == LinearInit /\ [][LinearNext]_vars

\* a program with a SimpleLogisticRegression
LogisticSpec == LogisticInit /\ [][LogisticNext]_vars

\* what every iteration of the loop of fit does to the position and the
\* count: while pc = "fitting" the steps of LogisticNext are those of
\* LogisticFitStep, which is enabled there and satisfies FitRuns
FitRuns ==
  /\ pc = "fitting"
  /\ pc' \in {"fitting", "idle"}
  /\ iteration_count' = Counted(iteration_count + 1)

\* the thread that called fit is not suspended for ever inside the loop
FairLogisticSpec == LogisticSpec /\ WF_<<pc, iteration_count>>(FitRuns)

\* the values of epsilon Maths::set is called with: its default and two
\* distances between elements of XVals
Epsilons == {DefaultEpsilon, D(1), D(2)}

\* a program that calls the free functions on the containers train.x, train.y
FreeInit ==
  /\ cls = Free
  /\ ValType = "double"
  /\ WithHyper(DefaultHyper)
  /\ train \in Samples
  /\ Constructed

FreeNext ==
  \/ AccuracyScore(train)
  \/ \E epsilon \in Epsilons : MathsSet(train.x, epsilon)
  \/ Rankdata(train.x)

FreeSpec == FreeInit /\ [][FreeNext]_vars

\* a program that scores labels: with the free functions, or with a
\* SimpleLogisticRegression
ScoreSpec == (FreeInit \/ LogisticInit) /\ [][FreeNext \/ LogisticNext]_vars

\* ================================================================ claims
\* The vocabulary of the claims, written from their wording.

RECURSIVE SeqSum(_)
SeqSum(q) == IF q = <<>> THEN 0 ELSE Head(q) + SeqSum(Tail(q))

\* the products a[j] * b[j] as the containers' element type holds them
Products(a, b) == [j \in 1..Len(a) |-> ToValType(a[j] * b[j])]

\* n*Sxy - Sx*Sy and n*Sxx - Sx^2, as integers
SlopeNum(x, y) ==
  Len(x) * SeqSum(Products(x, y)) - SeqSum(x) * SeqSum(y)

SlopeDen(x) == Len(x) * SeqSum(Products(x, x)) - SeqSum(x) * SeqSum(x)

Constant(q) == \A i, j \in 1..Len(q) : q[i] = q[j]

\* the arguments of the last call, as a sample
Args == [x |-> call.x, y |-> call.y]

\* the first index whose x differs from x[1]
OtherIndex(x) ==
  CHOOSE j \in 1..Len(x) : x[j] # x[1] /\ \A k \in 1..(j - 1) : x[k] = x[1]

\* the line y = a*x + b through the first point of s and the first point
\* with another x
LineOf(s) ==
  LET j == OtherIndex(s.x)
      a == Fin(s.y[j] - s.y[1], s.x[j] - s.x[1], 0)
  IN  [a |-> a, b |-> DSub(D(s.y[1]), DMul(a, D(s.x[1])))]

\* y[i] = a*x[i] + b exactly for all i, x not constant, equal lengths >= 2
PerfectlyLinear(s) ==
  /\ Len(s.x) = Len(s.y)
  /\ Len(s.x) >= 2
  /\ ~Constant(s.x)
  /\ \A j \in 1..Len(s.x) :
        D(s.y[j]) = DAdd(DMul(LineOf(s).a, D(s.x[j])), LineOf(s).b)

AsDoubles(q) == [j \in 1..Len(q) |-> D(q[j])]

\* the linear regressor holds the parameters fit computed from s
LinearFitted(s) == cls = Linear /\ fitted = s /\ fitted # NoSample

\* C1: after fit on a perfectly linear sample y = a*x + b (x not constant)
\* the regressor holds coefficient a and intercept b, and predict(x) returns
\* y; x = [1,2,3,4], y = [3,5,7,9] gives 2 and 1, and predict([5]) = [11].
C1_FitRecoversLine ==
  /\ PerfectlyLinear(fitted) /\ LinearFitted(fitted) =>
       /\ coeff = LineOf(fitted).a
       /\ intercept = LineOf(fitted).b
       /\ call.op = "predict" /\ call.x = fitted.x =>
            call.ret = AsDoubles(fitted.y)
  /\ LinearFitted(LinearExample) =>
       /\ coeff = D(2)
       /\ intercept = D(1)
       /\ call.op = "predict" /\ call.x = <<5>> => call.ret = <<D(11)>>

C3_ConstantXGivesNaN ==
  /\ (/\ cls = Linear
      /\ call.op = "fit"
      /\ Len(call.x) = Len(call.y)
      /\ Len(call.x) >= 2
      /\ Constant(call.x)) =>
       call.status = "ok" /\ IsNaN(coeff) /\ IsNaN(intercept)
  /\ (/\ LinearFitted(fitted)
      /\ Constant(fitted.x)
      /\ call.op = "predict") =>
       \A j \in 1..Len(call.ret) : IsNaN(call.ret[j])

\* fit accepts the hyperparameters of the regressor
ValidHyper ==
  /\ DGt(learning_rate, Zero)
  /\ DGt(gradient_threshold, Zero)
  /\ DGt(One, gradient_threshold)
  /\ iteration_threshold > 0

\* C4: fit of either regressor (the logistic one with valid hyperparameters)
\* fails with invalid_argument when the sizes of x and y differ or are
\* below 2.
C4_FitRejectsSizes ==
  (/\ call.op = "fit"
   /\ cls = Logistic => ValidHyper
   /\ Len(call.x) # Len(call.y) \/ Len(call.x) < 2) =>
    call.status = "invalid_argument"

\* a logistic fit with valid hyperparameters, refused for sizes 3 and 2
C4_Witness ==
  /\ cls = Logistic
  /\ ValidHyper
  /\ call.op = "fit"
  /\ Len(call.x) = 3
  /\ Len(call.y) = 2
  /\ call.status = "invalid_argument"

\* sum of the doubles of q
RECURSIVE DSum(_)
DSum(q) == IF q = <<>> THEN Zero ELSE DAdd(Head(q), DSum(Tail(q)))

Squares(q) == [j \in 1..Len(q) |-> DMul(q[j], q[j])]

\* yhat = coefficient * x + intercept with the parameters of the regressor
YHat(x) == [j \in 1..Len(x) |-> DAdd(DMul(coeff, D(x[j])), intercept)]

\* SS_res = sum (y_i - yhat_i)^2
SSres(x, y) ==
  DSum(Squares([j \in 1..Len(x) |-> DSub(D(y[j]), YHat(x)[j])]))

\* sum(v_i^2) - (sum v_i)^2 / n of the predicted values
SStotOfPredicted(x) ==
  DSub(DSum(Squares(YHat(x))),
       DDiv(DMul(DSum(YHat(x)), DSum(YHat(x))), D(Len(x))))

\* sum(y_i^2) - (sum y_i)^2 / n of the true values
SStotOfTrue(y) ==
  Fin(Len(y) * SeqSum(Products(y, y)) - SeqSum(y) * SeqSum(y), Len(y), 0)

C6_PerfectFitScoresOne ==
  (/\ PerfectlyLinear(fitted)
   /\ LinearFitted(fitted)
   /\ call.op = "score"
   /\ Args = fitted) =>
    call.status = "ok" /\ call.ret = <<One>>

\* the distinct values of q
Range(q) == {q[j] : j \in 1..Len(q)}

\* C7: with valid hyperparameters and equal sizes >= 2, fit fails with
\* invalid_argument when the distinct values of y are not exactly {0, 1},
\* and passes its checks when they are.
C7_BinaryLabels ==
  (/\ cls = Logistic
   /\ call.op = "fit"
   /\ ValidHyper
   /\ Len(call.x) = Len(call.y)
   /\ Len(call.x) >= 2) =>
    IF Range(call.y) = {0, 1}
    THEN call.status \in {"running", "ok"}
    ELSE call.status = "invalid_argument"

\* a fit refused for the two classes 1 and 2
C7_Witness ==
  /\ cls = Logistic
  /\ call.op = "fit"
  /\ ValidHyper
  /\ Len(call.x) = Len(call.y)
  /\ Range(call.y) = {1, 2}
  /\ call.status = "invalid_argument"

HyperMessages ==
  {"Parameter learning_rate must be positive.",
   "Parameter gradient_threshold must be a percentage in (0, 1).",
   "Parameter iteration_threshold must be positive."}

\* C8: whatever x and y are, fit fails with invalid_argument when
\* learning_rate <= 0, gradient_threshold is not strictly between 0 and 1 or
\* max_iterations <= 0; the regressor is constructed with such values all
\* the same, and no other call reports them.
C8_HyperparametersCheckedByFit ==
  cls = Logistic =>
    /\ (call.op = "fit" /\ ~ValidHyper) =>
         call.status = "invalid_argument" /\ call.what \in HyperMessages
    /\ call.what \in HyperMessages => call.op = "fit" /\ ~ValidHyper
    /\ call.op = "none" => coeff = Unfit /\ intercept = Unfit /\ pc = "idle"

\* a fit of an acceptable sample refused for gradient_threshold = 1
C8_Witness ==
  /\ cls = Logistic
  /\ gradient_threshold = One
  /\ call.op = "fit"
  /\ call.x = <<0, 2>>
  /\ call.y = <<0, 1>>
  /\ call.status = "invalid_argument"

IsDefaultHyper ==
  /\ learning_rate = DefaultHyper.learning_rate
  /\ gradient_threshold = DefaultHyper.gradient_threshold
  /\ iteration_threshold = DefaultHyper.iteration_threshold

\* C9: with the default hyperparameters, fit on x = [1,1,1,5,5,5],
\* y = [0,0,0,1,1,1] returns (it is out of its loop by the iteration the
\* threshold names), and a following predict(x) equals y.
C9_ExampleIsLearned ==
  (cls = Logistic /\ IsDefaultHyper) =>
    /\ (pc = "fitting" /\ Args = LogisticExample) =>
         iteration_count < iteration_threshold
    /\ (/\ fitted = LogisticExample
        /\ pc = "idle"
        /\ call.op = "predict"
        /\ call.x = LogisticExample.x) =>
         call.ret = LogisticExample.y

\* predict(x) after the fit of the example with the default hyperparameters
C9_Witness ==
  /\ cls = Logistic
  /\ IsDefaultHyper
  /\ fitted = LogisticExample
  /\ call.op = "predict"
  /\ call.x = LogisticExample.x
  /\ call.ret = LogisticExample.y

\* C10: a fit that passed its checks leaves the loop and returns.
C10_FitTerminates == (pc = "fitting") ~> (pc = "idle")

\* the true labels of the last call of accuracy_score or score, and those
\* they are compared with
TrueLabels == IF call.op = "accuracy_score" THEN call.x ELSE call.y

PredictedLabels ==
  IF call.op = "accuracy_score" THEN call.y
  ELSE [j \in 1..Len(call.x) |->
          IF DGe(DAdd(DMul(coeff, D(call.x[j])), intercept), Zero) THEN 1 ELSE 0]

\* the number of positions 1..n at which the sequences a and b agree
RECURSIVE Matches(_, _, _)
Matches(a, b, n) ==
  IF n = 0 THEN 0
  ELSE Matches(a, b, n - 1) + (IF a[n] = b[n] THEN 1 ELSE 0)

\* C11: for label sequences of the same length n >= 1, accuracy_score and
\* the score of the logistic regressor return k/n, k the number of positions
\* where the predicted label is the true one, and 1.0 when all of them are.
C11_AccuracyIsKOverN ==
  (/\ \/ cls = Free /\ call.op = "accuracy_score"
      \/ cls = Logistic /\ call.op = "score"
   /\ Len(TrueLabels) = Len(PredictedLabels)
   /\ Len(TrueLabels) >= 1) =>
    LET n == Len(TrueLabels)
        k == Matches(TrueLabels, PredictedLabels, n)
    IN  /\ call.status = "ok"
        /\ call.ret = <<Fin(k, n, 0)>>
        /\ TrueLabels = PredictedLabels => call.ret = <<One>>

\* an accuracy of 2/3 from accuracy_score
C11_Witness ==
  /\ cls = Free
  /\ call.op = "accuracy_score"
  /\ Len(call.x) = 3
  /\ call.ret = <<Fin(2, 3, 0)>>

\* the parameters the loop of fit(x, y) ends with when it starts from c, i
\* and the count n, for a fit that returns
RECURSIVE LoopResult(_, _, _, _, _)
LoopResult(c, i, n, x, y) ==
  LET r == FitIteration(c, i, n, learning_rate, gradient_threshold,
                        iteration_threshold, x, y)
  IN  IF r.again
      THEN LoopResult(r.coeff, r.intercept, r.iteration_count, x, y)
      ELSE [coeff |-> r.coeff, intercept |-> r.intercept]

\* the parameters of a regressor of this class, constructed with these
\* hyperparameters, after its first call fit(x, y) has returned
FreshFit(x, y) ==
  IF cls = Linear THEN LinearFitParams(x, y)
  ELSE LoopResult(Zero, Zero, 0, x, y)

\* C12: whatever was done before, after a successful fit(x, y) coefficient
\* and intercept are those of a freshly constructed regressor with the same
\* hyperparameters after fit(x, y).
C12_FitOverwrites ==
  (call.op = "fit" /\ call.status = "ok") =>
    /\ coeff = FreshFit(call.x, call.y).coeff
    /\ intercept = FreshFit(call.x, call.y).intercept

\* a logistic fit that returned on a regressor fitted before on another
\* sample
C12_Witness ==
  /\ cls = Logistic
  /\ call.op = "fit"
  /\ call.status = "ok"
  /\ call.refit
  /\ Args = LogisticSecond
  /\ train # LogisticSecond

\* u and v differ by less than the epsilon of the last call of set
Close(u, v) == DGt(call.epsilon, D(Abs(u - v)))

\* the output elements of the last call of set that stand for the input
\* value v: those closer to v than epsilon
Rep(v) == {r \in Range(call.ret) : Close(r, v)}

\* the last call is a call of set on a non-empty container, which returned
SetReturned == cls = Free /\ call.op = "set" /\ call.status = "ok"

\* C13 as stated: two input values are of one class exactly when they
\* differ by less than epsilon: values at least epsilon apart are in distinct
\* output classes, values less than epsilon apart are represented by a
\* single output element.
C13_Original ==
  SetReturned =>
    \A u, v \in Range(call.x) :
       IF Close(u, v)
       THEN Rep(u) = Rep(v) /\ Cardinality(Rep(u)) = 1
       ELSE Rep(u) \cap Rep(v) = {}

\* being closer than epsilon is transitive on the values of q
Clustered(q) ==
  \A u, v, w \in Range(q) : Close(u, v) /\ Close(v, w) => Close(u, w)

\* C13, amended: the output holds input values, the first of them x.front()
\* and no value twice; two output elements are at least epsilon apart, and
\* every input value is closer than epsilon to an output element.  When
\* being closer than epsilon is transitive on the input values, two of them
\* are represented by one and the same single output element exactly when
\* they are closer than epsilon.
C13_SetCoversInput ==
  SetReturned =>
    /\ Range(call.ret) \subseteq Range(call.x)
    /\ call.ret[1] = call.x[1]
    /\ Cardinality(Range(call.ret)) = Len(call.ret)
    /\ \A r, t \in Range(call.ret) : r # t => ~Close(r, t)
    /\ \A v \in Range(call.x) : Rep(v) # {}
    /\ Clustered(call.x) =>
         \A u, v \in Range(call.x) :
            IF Close(u, v)
            THEN Rep(u) = Rep(v) /\ Cardinality(Rep(u)) = 1
            ELSE Rep(u) \cap Rep(v) = {}

\* set(x, 2) of three values, two of them distinct and less than 2 apart:
\* one output element stands for both
C13_Witness ==
  /\ SetReturned
  /\ call.epsilon = D(2)
  /\ Len(call.x) = 3
  /\ Clustered(call.x)
  /\ Cardinality(Range(call.x)) = 2
  /\ Len(call.ret) = 1

\* the number of elements of x smaller than x[i]
RankOf(x, i) == Cardinality({j \in 1..Len(x) : x[j] < x[i]})

\* C14: for x of pairwise distinct values, rankdata(x) has the length of x
\* and its i-th element is the 0-based increasing rank of x[i], the number
\* of elements of x smaller than x[i].
C14_RankdataGivesRanks ==
  (/\ cls = Free
   /\ call.op = "rankdata"
   /\ \A i, j \in 1..Len(call.x) : i # j => call.x[i] # call.x[j]) =>
    /\ Len(call.ret) = Len(call.x)
    /\ \A i \in 1..Len(call.x) : call.ret[i] = RankOf(call.x, i)

\* both ratios of the loop condition exceed gradient_threshold, with the
\* gradients and the parameters the regressor holds
BothRatiosExceed ==
  /\ DGt(DFabs(DDiv(d_coeff, coeff)), gradient_threshold)
  /\ DGt(DFabs(DDiv(d_intercept, intercept)), gradient_threshold)

\* the last call is a fit of the logistic regressor that has returned
LogisticFitReturned ==
  cls = Logistic /\ call.op = "fit" /\ call.status = "ok"

C16_FailedFitKeepsParameters ==
  [][(call'.op = "fit" /\ call'.status = "invalid_argument") =>
       (coeff' = coeff /\ intercept' = intercept)]_vars

\* a fit that failed on a regressor fitted before, which holds the fitted
\* parameters
C16_Witness ==
  /\ call.op = "fit"
  /\ call.status = "invalid_argument"
  /\ call.refit
  /\ fitted # NoSample
  /\ coeff = FreshFit(fitted.x, fitted.y).coeff
  /\ coeff.k = "fin"
  /\ coeff # Unfit

\* the first iteration of a fit is made and no other yet: the regressor
\* holds what the ratio test of iteration 1 reads
AtFirstTest ==
  cls = Logistic /\ call.op = "fit" /\ call.status # "invalid_argument"
  /\ iteration_count = 1

\* the positions of the training sample of class 0, and the sum of their x
ClassZero == {j \in 1..Len(call.y) : call.y[j] = 0}

RECURSIVE SumOver(_, _)
SumOver(x, J) ==
  IF J = {} THEN 0
  ELSE LET j == CHOOSE m \in J : TRUE IN x[j] + SumOver(x, J \ {j})

\* C17 as stated: at the ratio test of iteration 1 coefficient or intercept
\* is exactly 0.
C17_Original == AtFirstTest => (coeff = Zero \/ intercept = Zero)

\* C17, amended: at the ratio test of iteration 1 the intercept is
\* -learning_rate * n0/n, n0 >= 1 the number of training elements of class
\* 0, and never 0; the coefficient is -learning_rate * S0/n, S0 the sum of
\* the x of class 0, and is 0 exactly when S0 = 0, d_coeff being 0 as well.
C17_FirstTestDivisors ==
  AtFirstTest =>
    LET n  == Len(call.x)
        n0 == Cardinality(ClassZero)
        S0 == SumOver(call.x, ClassZero)
    IN  /\ n0 >= 1
        /\ intercept = DNeg(DMul(learning_rate, Fin(n0, n, 0)))
        /\ intercept # Zero
        /\ coeff = DNeg(DMul(learning_rate, Fin(S0, n, 0)))
        /\ coeff = Zero <=> S0 = 0
        /\ coeff = Zero => d_coeff = Zero

\* the ratio test of iteration 1 of the fit of x = [1,1,1,5,5,5],
\* y = [0,0,0,1,1,1]: neither divisor is 0
C17_Witness ==
  /\ AtFirstTest
  /\ Args = LogisticExample
  /\ coeff # Zero
  /\ intercept # Zero

\* the thresholded predictions of the parameters the regressor holds equal
\* y on every element of the sample fit was called with.  Inside the loop
\* both parameters are fractions, and coefficient * x + intercept >= 0 is
\* read off their numerators and denominators
ClassifiesSample ==
  /\ coeff.k = "fin" /\ coeff.e = 0
  /\ intercept.k = "fin" /\ intercept.e = 0
  /\ \A j \in 1..Len(call.x) :
        (coeff.n * call.x[j] * intercept.d + intercept.n * coeff.d >= 0)
          <=> call.y[j] = 1

\* C18: an iteration of fit whose predictions equal y on every training
\* element leaves coefficient and intercept unchanged, both gradient
\* estimates being 0, and so does every later one; the parameters such a
\* fit returns with classify the training sample perfectly.
C18_PerfectIterationIsFixed ==
  [][(cls = Logistic /\ pc = "fitting" /\ ClassifiesSample) =>
       /\ coeff' = coeff
       /\ intercept' = intercept
       /\ d_coeff' = Zero
       /\ d_intercept' = Zero
       /\ ClassifiesSample'
       /\ pc' = "idle" => call'.op = "fit" /\ call'.status = "ok"]_vars

\* a fit still in its loop after an iteration whose predictions were y
C18_Witness ==
  /\ cls = Logistic
  /\ pc = "fitting"
  /\ iteration_count >= 2
  /\ ClassifiesSample
  /\ d_coeff = Zero
  /\ d_intercept = Zero
  /\ coeff # Zero

====
